---- MODULE Spec2Model ----
(***************************************************************************)
(* Model of generate_verilog_codes.py: the two-phase run that asks a model *)
(* server for tasks, sanitizes the answer into a numbered mapping, stores  *)
(* one file per task and then asks for one report per stored file.         *)
(*                                                                         *)
(* Text is a sequence of atoms.  An atom is one character, except for the  *)
(* words "BT3" (three backticks), "json", "markdown", "Task", "Hello",     *)
(* "None", "null", "\\u00b2" (the six characters of that escape), "DATA/",  *)
(* "today" (the date), "_task", "_output", ".md", "tasks", "Generate:",    *)
(* "Solve:" and "{task_content}", which stand for their letters.  The      *)
(* letters of a word occur in a text only where the word itself stands, so *)
(* every string operation of the source acts on atoms exactly as it acts   *)
(* on characters.                                                          *)
(***************************************************************************)
EXTENDS Integers, Sequences, FiniteSets, TLC

\* ------------------------------------------------------------------------
\* Bounds of the model
\* ------------------------------------------------------------------------
\* entries of a JSON object or array, or "Task <n>:" sections, in a response
MaxEntries == 2

\* ------------------------------------------------------------------------
\* Python string primitives
\* ------------------------------------------------------------------------
AsciiDigits == <<"0", "1", "2", "3", "4", "5", "6", "7", "8", "9">>

IsAsciiDigit(c) == \E i \in 1..Len(AsciiDigits) : AsciiDigits[i] = c

\* str.isspace for the characters of the alphabet
IsSpace(c) == c \in {" ", "\n"}

\* Unicode characters for which str.isdigit is true: the decimal digits and
\* the superscript two (Numeric_Type=Digit).
IsUnicodeDigit(c) == IsAsciiDigit(c) \/ c = "²"

\* str.isdigit: non-empty and every character is a digit
IsDigit(s) == Len(s) > 0 /\ \A i \in 1..Len(s) : IsUnicodeDigit(s[i])

DigitValue(c) == (CHOOSE i \in 1..Len(AsciiDigits) : AsciiDigits[i] = c) - 1

\* int(s) succeeds on the keys the sanitizer produces iff they are decimal
\* digits; int("²") raises ValueError.
IntParses(s) == Len(s) > 0 /\ \A i \in 1..Len(s) : IsAsciiDigit(s[i])

RECURSIVE IntOf(_)
IntOf(s) == IF Len(s) = 0 THEN 0
            ELSE 10 * IntOf(SubSeq(s, 1, Len(s) - 1)) + DigitValue(s[Len(s)])

\* str(n) for n >= 0
RECURSIVE StrOfInt(_)
StrOfInt(n) == IF n < 10 THEN <<AsciiDigits[n + 1]>>
               ELSE StrOfInt(n \div 10) \o <<AsciiDigits[(n % 10) + 1]>>

\* f"{n:03d}"
Pad3(n) == LET d == StrOfInt(n)
           IN  IF Len(d) >= 3 THEN d
               ELSE IF Len(d) = 2 THEN <<"0">> \o d ELSE <<"0", "0">> \o d

RECURSIVE LStrip(_)
LStrip(s) == IF Len(s) > 0 /\ IsSpace(s[1]) THEN LStrip(Tail(s)) ELSE s

RECURSIVE RStrip(_)
RStrip(s) == IF Len(s) > 0 /\ IsSpace(s[Len(s)])
             THEN RStrip(SubSeq(s, 1, Len(s) - 1)) ELSE s

\* str.strip()
Strip(s) == RStrip(LStrip(s))

StartsWith(s, p) == Len(s) >= Len(p) /\ SubSeq(s, 1, Len(p)) = p

EndsWith(s, p) == Len(s) >= Len(p) /\ SubSeq(s, Len(s) - Len(p) + 1, Len(s)) = p

\* str.splitlines(): a line break ends a line; no empty line after the last
\* line break; the empty text has no lines.
RECURSIVE SplitLinesFrom(_, _)
SplitLinesFrom(s, cur) ==
    IF Len(s) = 0 THEN (IF Len(cur) = 0 THEN <<>> ELSE <<cur>>)
    ELSE IF s[1] = "\n" THEN <<cur>> \o SplitLinesFrom(Tail(s), <<>>)
    ELSE SplitLinesFrom(Tail(s), Append(cur, s[1]))

SplitLines(s) == SplitLinesFrom(s, <<>>)

\* "\n".join(lines)
RECURSIVE JoinLines(_)
JoinLines(lines) ==
    IF Len(lines) = 0 THEN <<>>
    ELSE IF Len(lines) = 1 THEN lines[1]
    ELSE lines[1] \o <<"\n">> \o JoinLines(Tail(lines))

\* str.replace(old, new) for a one-atom old
RECURSIVE Replace(_, _, _)
Replace(s, old, new) ==
    IF Len(s) = 0 THEN <<>>
    ELSE (IF s[1] = old THEN <<new>> ELSE <<s[1]>>) \o Replace(Tail(s), old, new)

\* ------------------------------------------------------------------------
\* Python values: str, int, list, dict (insertion ordered) and None
\* ------------------------------------------------------------------------
PyNone == [t |-> "none", s |-> <<>>, n |-> 0, items |-> <<>>]

PyStr(s) == [t |-> "str", s |-> s, n |-> 0, items |-> <<>>]

PyInt(n) == [t |-> "int", s |-> <<>>, n |-> n, items |-> <<>>]

\* items: the elements in order
PyList(items) == [t |-> "list", s |-> <<>>, n |-> 0, items |-> items]

\* items: the entries [k |-> key text, v |-> value] in insertion order
PyDict(items) == [t |-> "dict", s |-> <<>>, n |-> 0, items |-> items]

HasKey(items, k) == \E i \in 1..Len(items) : items[i].k = k

\* d[k] = v: a present key keeps its position and takes the new value
DictSet(items, k, v) ==
    IF HasKey(items, k)
    THEN [i \in 1..Len(items) |-> IF items[i].k = k THEN [k |-> k, v |-> v] ELSE items[i]]
    ELSE Append(items, [k |-> k, v |-> v])

\* bool(x) of a response: None and "" are falsy
Truthy(x) == x.t = "str" /\ Len(x.s) > 0

\* ------------------------------------------------------------------------
\* json.loads (strict): objects, arrays, strings and non-negative integers.
\* The alphabet has no backslash, sign, point, exponent or literal word, so
\* these are all the JSON values a text over it can hold.  A result is
\* [ok, v, p]: whether a value was read, the value, the position after it.
\* ------------------------------------------------------------------------
JsonFail == [ok |-> FALSE, v |-> PyNone, p |-> 0]

JsonOk(v, p) == [ok |-> TRUE, v |-> v, p |-> p]

At(s, p) == IF p >= 1 /\ p <= Len(s) THEN s[p] ELSE "<eof>"

\* the first position at or after p that holds no JSON whitespace
RECURSIVE SkipWs(_, _)
SkipWs(s, p) == IF p <= Len(s) /\ IsSpace(s[p]) THEN SkipWs(s, p + 1) ELSE p

\* scanstring, entered after the opening quote: a raw line break is a
\* control character and is refused, as is the end of the text
RECURSIVE ScanString(_, _, _)
ScanString(s, p, acc) ==
    IF p > Len(s) THEN JsonFail
    ELSE IF s[p] = "\"" THEN JsonOk(PyStr(acc), p + 1)
    ELSE IF s[p] = "\n" THEN JsonFail
    ELSE ScanString(s, p + 1, Append(acc, s[p]))

\* the end of the run of decimal digits that starts at p
RECURSIVE DigitsEnd(_, _)
DigitsEnd(s, p) == IF p <= Len(s) /\ IsAsciiDigit(s[p]) THEN DigitsEnd(s, p + 1) ELSE p

\* NUMBER_RE: 0 | [1-9][0-9]*
ScanNumber(s, p) ==
    IF s[p] = "0" THEN JsonOk(PyInt(0), p + 1)
    ELSE LET e == DigitsEnd(s, p)
         IN  JsonOk(PyInt(IntOf(SubSeq(s, p, e - 1))), e)

RECURSIVE ScanOnce(_, _)
RECURSIVE ScanPairs(_, _, _)
RECURSIVE ScanElems(_, _, _)

\* JSONObject's loop, entered on the opening quote of a key
ScanPairs(s, p, acc) ==
    LET key == ScanString(s, p + 1, <<>>)
    IN  IF ~key.ok THEN JsonFail
        ELSE LET c == SkipWs(s, key.p)
             IN  IF At(s, c) # ":" THEN JsonFail
                 ELSE LET val == ScanOnce(s, SkipWs(s, c + 1))
                      IN  IF ~val.ok THEN JsonFail
                          ELSE LET e    == SkipWs(s, val.p)
                                   more == DictSet(acc, key.v.s, val.v)
                               IN  IF At(s, e) = "}" THEN JsonOk(PyDict(more), e + 1)
                                   ELSE IF At(s, e) # "," THEN JsonFail
                                   ELSE LET q == SkipWs(s, e + 1)
                                        IN  IF At(s, q) # "\"" THEN JsonFail
                                            ELSE ScanPairs(s, q, more)

\* JSONArray's loop, entered on the first character of an element
ScanElems(s, p, acc) ==
    LET val == ScanOnce(s, p)
    IN  IF ~val.ok THEN JsonFail
        ELSE LET e    == SkipWs(s, val.p)
                 more == Append(acc, val.v)
             IN  IF At(s, e) = "]" THEN JsonOk(PyList(more), e + 1)
                 ELSE IF At(s, e) # "," THEN JsonFail
                 ELSE ScanElems(s, SkipWs(s, e + 1), more)

\* scan_once: one value starting exactly at p
ScanOnce(s, p) ==
    LET c == At(s, p)
    IN  IF c = "\"" THEN ScanString(s, p + 1, <<>>)
        ELSE IF c = "{" THEN
            LET q == SkipWs(s, p + 1)
            IN  IF At(s, q) = "}" THEN JsonOk(PyDict(<<>>), q + 1)
                ELSE IF At(s, q) # "\"" THEN JsonFail
                ELSE ScanPairs(s, q, <<>>)
        ELSE IF c = "[" THEN
            LET q == SkipWs(s, p + 1)
            IN  IF At(s, q) = "]" THEN JsonOk(PyList(<<>>), q + 1)
                ELSE ScanElems(s, q, <<>>)
        ELSE IF IsAsciiDigit(c) THEN ScanNumber(s, p)
        ELSE JsonFail

\* json.loads(s): one value, whitespace around it, nothing after it.
\* ok = FALSE is json.JSONDecodeError.
JsonLoads(s) ==
    LET r == ScanOnce(s, SkipWs(s, 1))
    IN  IF r.ok /\ SkipWs(s, r.p) = Len(s) + 1 THEN r ELSE JsonFail

\* ------------------------------------------------------------------------
\* str(x) / repr(x) and json.dumps(x, indent=2)
\* ------------------------------------------------------------------------
Contains(s, c) == \E i \in 1..Len(s) : s[i] = c

\* repr of a str: single quotes unless the text holds one and no double quote
ReprStr(s) ==
    IF Contains(s, "'") /\ ~Contains(s, "\"")
    THEN <<"\"">> \o s \o <<"\"">>
    ELSE <<"'">> \o s \o <<"'">>

RECURSIVE PyRepr(_)
RECURSIVE ReprElems(_)
RECURSIVE ReprPairs(_)

ReprElems(items) ==
    IF Len(items) = 0 THEN <<>>
    ELSE PyRepr(items[1])
         \o (IF Len(items) > 1 THEN <<",", " ">> \o ReprElems(Tail(items)) ELSE <<>>)

ReprPairs(items) ==
    IF Len(items) = 0 THEN <<>>
    ELSE ReprStr(items[1].k) \o <<":", " ">> \o PyRepr(items[1].v)
         \o (IF Len(items) > 1 THEN <<",", " ">> \o ReprPairs(Tail(items)) ELSE <<>>)

PyRepr(x) ==
    CASE x.t = "str"  -> ReprStr(x.s)
      [] x.t = "int"  -> StrOfInt(x.n)
      [] x.t = "list" -> <<"[">> \o ReprElems(x.items) \o <<"]">>
      [] x.t = "dict" -> <<"{">> \o ReprPairs(x.items) \o <<"}">>
      [] OTHER        -> <<"None">>

\* str(x), also what an f-string field renders
PyStrOf(x) == IF x.t = "str" THEN x.s ELSE PyRepr(x)

\* ensure_ascii: a non-ASCII character is written as its \uXXXX escape
RECURSIVE JsonEscape(_)
JsonEscape(s) ==
    IF Len(s) = 0 THEN <<>>
    ELSE (IF s[1] = "²" THEN <<"\\u00b2">> ELSE <<s[1]>>) \o JsonEscape(Tail(s))

JsonQuote(s) == <<"\"">> \o JsonEscape(s) \o <<"\"">>

RECURSIVE Spaces(_)
Spaces(n) == IF n = 0 THEN <<>> ELSE <<" ">> \o Spaces(n - 1)

RECURSIVE Dumps(_, _)
RECURSIVE DumpElems(_, _)
RECURSIVE DumpPairs(_, _)

DumpElems(items, level) ==
    IF Len(items) = 0 THEN <<>>
    ELSE Spaces(2 * level) \o Dumps(items[1], level)
         \o (IF Len(items) > 1 THEN <<",", "\n">> \o DumpElems(Tail(items), level)
             ELSE <<>>)

DumpPairs(items, level) ==
    IF Len(items) = 0 THEN <<>>
    ELSE Spaces(2 * level) \o JsonQuote(items[1].k) \o <<":", " ">>
         \o Dumps(items[1].v, level)
         \o (IF Len(items) > 1 THEN <<",", "\n">> \o DumpPairs(Tail(items), level)
             ELSE <<>>)

\* the text of x when it sits at nesting depth `level`
Dumps(x, level) ==
    CASE x.t = "str"  -> JsonQuote(x.s)
      [] x.t = "int"  -> StrOfInt(x.n)
      [] x.t = "list" ->
           IF Len(x.items) = 0 THEN <<"[", "]">>
           ELSE <<"[", "\n">> \o DumpElems(x.items, level + 1)
                \o <<"\n">> \o Spaces(2 * level) \o <<"]">>
      [] x.t = "dict" ->
           IF Len(x.items) = 0 THEN <<"{", "}">>
           ELSE <<"{", "\n">> \o DumpPairs(x.items, level + 1)
                \o <<"\n">> \o Spaces(2 * level) \o <<"}">>
      [] OTHER        -> <<"null">>

\* json.dumps(x, indent=2)
JsonDumps(x) == Dumps(x, 0)

\* ------------------------------------------------------------------------
\* sanitize_json
\* ------------------------------------------------------------------------
FenceOpener == <<"BT3", "json">>

FenceCloser == <<"BT3">>

\* the test of line 52 on the lines of the text
IsFenced(lines) ==
    /\ Strip(lines[1]) = FenceOpener
    /\ Strip(lines[Len(lines)]) = FenceCloser

\* the first position at or after p where the atoms of pat start; 0 if none
RECURSIVE Find(_, _, _)
Find(s, pat, p) ==
    IF p + Len(pat) - 1 > Len(s) THEN 0
    ELSE IF SubSeq(s, p, p + Len(pat) - 1) = pat THEN p
    ELSE Find(s, pat, p + 1)

\* Variant of Cleaned: the fenced block is searched anywhere in the text.
CleanedAnywhere(text) ==
    LET i == Find(text, FenceOpener, 1)
        j == IF i = 0 THEN 0 ELSE Find(text, FenceCloser, i + 2)
    IN  IF j > 0 THEN Strip(SubSeq(text, i + 2, j - 1)) ELSE Strip(text)

\* lines 51-56: the candidate that is handed to json.loads
Cleaned(text) ==
    LET lines == SplitLines(text)
    IN  IF IsFenced(lines)
        THEN Strip(JoinLines(SubSeq(lines, 2, Len(lines) - 1)))
        ELSE Strip(text)

AnyDigitKey(items) == \E i \in 1..Len(items) : IsDigit(items[i].k)

\* Variant of KeepDigitKeys: keeps the keys int() accepts.
RECURSIVE KeepIntKeys(_)
KeepIntKeys(items) ==
    IF Len(items) = 0 THEN <<>>
    ELSE (IF IntParses(items[1].k) THEN <<items[1]>> ELSE <<>>)
         \o KeepIntKeys(Tail(items))

\* lines 69-71: the entries under digit keys, in order
RECURSIVE KeepDigitKeys(_)
KeepDigitKeys(items) ==
    IF Len(items) = 0 THEN <<>>
    ELSE (IF IsDigit(items[1].k) THEN <<items[1]>> ELSE <<>>)
         \o KeepDigitKeys(Tail(items))

\* Variant of Heading: one line break after the heading.
HeadingOneBreak(key, value) == <<"#", " ">> \o key \o <<"\n">> \o PyStrOf(value)

\* line 75: f"# {key}\n\n{value}"
Heading(key, value) == <<"#", " ">> \o key \o <<"\n", "\n">> \o PyStrOf(value)

\* lines 66-87: the mapping built from the parsed value
TasksOfParsed(parsed) ==
    LET n == Len(parsed.items)
        result_dict ==
            IF parsed.t = "dict" THEN
                IF AnyDigitKey(parsed.items) THEN KeepDigitKeys(parsed.items)
                ELSE [i \in 1..n |->
                        [k |-> StrOfInt(i),
                         v |-> PyStr(Heading(parsed.items[i].k, parsed.items[i].v))]]
            ELSE IF parsed.t = "list" THEN
                [i \in 1..n |-> [k |-> StrOfInt(i), v |-> parsed.items[i]]]
            ELSE <<>>
    IN  IF Len(result_dict) = 0
        THEN <<[k |-> <<"1">>, v |-> PyStr(JsonDumps(parsed))]>>
        ELSE result_dict

\* a match of Task\s+(\d+): starting at p: [ok, num, e], e the position of
\* the colon.  \s+ and \d+ are greedy and never need to give back.
TaskMatchAt(s, p) ==
    IF At(s, p) = "Task" /\ IsSpace(At(s, p + 1))
    THEN LET q == SkipWs(s, p + 1)
             e == DigitsEnd(s, q)
         IN  IF e > q /\ At(s, e) = ":"
             THEN [ok |-> TRUE, num |-> SubSeq(s, q, e - 1), e |-> e]
             ELSE [ok |-> FALSE, num |-> <<>>, e |-> 0]
    ELSE [ok |-> FALSE, num |-> <<>>, e |-> 0]

\* re.split(r'Task\s+(\d+):', text): the text before the first match, then
\* for every match its number and the text up to the next match
RECURSIVE ReSplitFrom(_, _, _)
ReSplitFrom(s, p, start) ==
    IF p > Len(s) THEN <<SubSeq(s, start, Len(s))>>
    ELSE LET m == TaskMatchAt(s, p)
         IN  IF m.ok
             THEN <<SubSeq(s, start, p - 1), m.num>> \o ReSplitFrom(s, m.e + 1, m.e + 1)
             ELSE ReSplitFrom(s, p + 1, start)

ReSplit(s) == ReSplitFrom(s, 1, 1)

\* line 103: f"# Task {task_num}:{task_content}"
TaskHeading(num, content) == <<"#", " ", "Task", " ">> \o num \o <<":">> \o content

\* Variant of FallbackTasks: sections without content become tasks too.
RECURSIVE FallbackTasksKeepEmpty(_, _, _)
FallbackTasksKeepEmpty(sections, i, acc) ==
    IF i > Len(sections) THEN acc
    ELSE FallbackTasksKeepEmpty(sections, i + 2,
             DictSet(acc, sections[i],
                     PyStr(TaskHeading(sections[i], Strip(sections[i + 1])))))

\* lines 99-103, from section i on
RECURSIVE FallbackTasks(_, _, _)
FallbackTasks(sections, i, acc) ==
    IF i > Len(sections) THEN acc
    ELSE LET task_num     == sections[i]
             task_content == IF i + 1 <= Len(sections) THEN Strip(sections[i + 1])
                             ELSE <<>>
         IN  FallbackTasks(sections, i + 2,
                 IF Len(task_content) > 0
                 THEN DictSet(acc, task_num, PyStr(TaskHeading(task_num, task_content)))
                 ELSE acc)

\* Variant of RawTask: the trimmed candidate instead of the response.
RawTaskCleaned(text, cleaned) == <<[k |-> <<"1">>, v |-> PyStr(cleaned)]>>

\* line 112: the whole response as the single task "1"
RawTask(text, cleaned) == <<[k |-> <<"1">>, v |-> PyStr(text)]>>

\* sanitize_json(text).  raised: the call raises to its caller (lines[0] of
\* an empty text).  how: the strategy that produced the result.
SanitizeJson(text) ==
    IF Len(SplitLines(text)) = 0
    THEN [raised |-> TRUE, cleaned |-> <<>>, how |-> "raised", result |-> <<>>]
    ELSE LET cleaned == Cleaned(text)
             r       == JsonLoads(cleaned)
         IN  IF r.ok
             THEN [raised |-> FALSE, cleaned |-> cleaned, how |-> "json",
                   result |-> TasksOfParsed(r.v)]
             ELSE LET task_sections  == ReSplit(text)
                      fallback_tasks == FallbackTasks(task_sections, 2, <<>>)
                  IN  IF Len(task_sections) > 1 /\ Len(fallback_tasks) > 0
                      THEN [raised |-> FALSE, cleaned |-> cleaned, how |-> "fallback",
                            result |-> fallback_tasks]
                      ELSE [raised |-> FALSE, cleaned |-> cleaned, how |-> "raw",
                            result |-> RawTask(text, cleaned)]

\* ------------------------------------------------------------------------
\* save_tasks_to_files.  The file system maps a path to its content; it is
\* a set of [path, content] with one entry per path.
\* ------------------------------------------------------------------------
\* lines 129-130 / 152-153: DATA/<today>_<nnn>_task.md
TaskPath(num) == <<"DATA/", "today", "_">> \o Pad3(num) \o <<"_task", ".md">>

\* open(path, 'w').write(content)
WriteFile(files, path, content) ==
    {f \in files : f.path # path} \cup {[path |-> path, content |-> content]}

\* lines 133-141: what the integer-key path writes
PrimaryContent(task_content) ==
    IF task_content.t = "dict" THEN Strip(JsonDumps(task_content))
    ELSE IF task_content.t = "str" THEN Strip(task_content.s)
    ELSE PyStrOf(task_content)

\* lines 156-159: what the fallback-save path writes
FallbackContent(task_content) ==
    IF task_content.t \in {"dict", "list"} THEN JsonDumps(task_content)
    ELSE Strip(PyStrOf(task_content))

\* one iteration of the loop of line 125 on state st = [saved_files, files]
SaveOne(st, task_id, task_content) ==
    IF IntParses(task_id)
    THEN LET filepath == TaskPath(IntOf(task_id))
         IN  [saved_files |-> Append(st.saved_files, filepath),
              files |-> WriteFile(st.files, filepath, PrimaryContent(task_content))]
    ELSE IF task_id # <<"tasks">>
    THEN LET filepath == TaskPath(Len(st.saved_files) + 1)
         IN  [saved_files |-> Append(st.saved_files, filepath),
              files |-> WriteFile(st.files, filepath, FallbackContent(task_content))]
    ELSE st

\* ------------------------------------------------------------------------
\* The responses the model server may give (the inputs of the run)
\* ------------------------------------------------------------------------
Q == "\""

\* JSON keys: a number, a digit that int() refuses, and two words
KeyTexts == {<<"1">>, <<"²">>, <<"a">>, <<"b">>}

\* JSON values of object entries: a string with a leading blank and a list;
\* array elements may also be an object or an integer
EntryValueTexts == {<<Q, " ", "x", Q>>,
                    <<"[", Q, "²", Q, "]">>}

ValueTexts == EntryValueTexts \cup {<<"{", Q, "a", Q, ":", " ", "5", "}">>, <<"5">>}

SeqsUpTo(S, n) == UNION {[1..m -> S] : m \in 0..n}

RECURSIVE JoinWith(_, _)
JoinWith(parts, sep) ==
    IF Len(parts) = 0 THEN <<>>
    ELSE IF Len(parts) = 1 THEN parts[1]
    ELSE parts[1] \o sep \o JoinWith(Tail(parts), sep)

ObjectTexts ==
    {<<"{">> \o JoinWith([i \in 1..Len(es) |->
                            <<Q>> \o es[i][1] \o <<Q, ":", " ">> \o es[i][2]],
                         <<",", " ">>) \o <<"}">> :
        es \in SeqsUpTo(KeyTexts \X EntryValueTexts, MaxEntries)}

ArrayTexts ==
    {<<"[">> \o JoinWith(vs, <<",", " ">>) \o <<"]">> :
        vs \in SeqsUpTo(ValueTexts, MaxEntries)}

\* "Task <n>:<content>" sections, one after another
TaskNumbers == {<<"1">>, <<"0", "1">>}

TaskContents == {<<>>, <<" ", "x", "\n">>, <<"a">>}

TaskTexts ==
    {JoinWith([i \in 1..Len(ss) |-> <<"Task", " ">> \o ss[i][1] \o <<":">> \o ss[i][2]],
              <<>>) :
        ss \in SeqsUpTo(TaskNumbers \X TaskContents, MaxEntries) \ {<<>>}}

\* texts that are neither: prose, a heading without a number, blanks, JSON
\* cut short, a number with a leading zero, a bare scalar
OtherTexts == {<<"x">>,
               <<"Task", " ", "x", ":">>,
               <<" ">>,
               <<"{", Q, "1", Q, ":", " ", Q, "x", Q>>,
               <<"{", Q, "Task", " ", "3", ":", Q, ":", " ", Q, "x", Q>>,
               <<"0", "1">>,
               <<Q, "x", Q>>,
               <<"[", "5", ",", "]">>}

Bodies == ObjectTexts \cup ArrayTexts \cup TaskTexts \cup OtherTexts

\* what surrounds the body: nothing; a json fence on the first and last
\* line; prose before and after such a fence; blanks
Wrappers == {<<<<>>, <<>>>>,
             <<<<" ", "BT3", "json", " ", "\n">>, <<"\n", "BT3", "\n">>>>,
             <<<<"x", "\n", "BT3", "json", "\n">>, <<"\n", "BT3", "\n", "x">>>>,
             <<<<" ">>, <<"\n">>>>}

TaskResponses == {w[1] \o b \o w[2] : w \in Wrappers, b \in Bodies}

\* answers of the solution model: fenced markdown, plain text, a fence only
ReportResponses == {<<"BT3", "markdown", "\n", "Hello", "\n", "BT3">>,
                    <<" ", "Hello", "\n">>,
                    <<"BT3", "markdown">>}

\* ------------------------------------------------------------------------
\* generate_with_ollama and the generation endpoint
\* ------------------------------------------------------------------------
\* What one POST can end in: no connection, a non-200 status, a 200 whose
\* body is not JSON, a 200 whose body has no "response" field, or a 200
\* with response text.
HttpErrors == {[kind |-> "conn_error", text |-> <<>>],
               [kind |-> "status_500", text |-> <<>>],
               [kind |-> "bad_body", text |-> <<>>]}

HttpOk(texts) == {[kind |-> "ok_no_field", text |-> <<>>],
                  [kind |-> "ok", text |-> <<>>]}
                 \cup {[kind |-> "ok", text |-> t] : t \in texts}

\* The outcomes the environment allows.  Without a URL, requests.post raises
\* before anything is sent; a request whose model is null is refused by the
\* server with a non-200 status.
Outcomes(url_set, model_set, texts) ==
    IF ~url_set THEN {[kind |-> "no_url", text |-> <<>>]}
    ELSE IF ~model_set THEN {[kind |-> "status_400", text |-> <<>>]}
    ELSE HttpErrors \cup HttpOk(texts)

\* lines 33-41: the value generate_with_ollama returns for an outcome
GenerateWithOllama(outcome) ==
    IF outcome.kind = "ok" THEN PyStr(outcome.text)
    ELSE IF outcome.kind = "ok_no_field" THEN PyStr(<<>>)
    ELSE PyNone

\* ------------------------------------------------------------------------
\* The run
\* ------------------------------------------------------------------------
VARIABLES pc,            \* where the run is
          env,           \* which environment settings are present
          response_text, \* generate_programming_tasks: the model's answer
          sanitized,     \* generate_programming_tasks: what sanitize_json gave
          saved_files,   \* save_tasks_to_files: the paths written so far
          save_idx,      \* save_tasks_to_files: the next entry of the mapping
          task_files,    \* the paths generate_programming_tasks returned
          files,         \* the DATA directory: path -> content
          calls,         \* every call of generate_with_ollama and whether it gave text
          idx,           \* process_task_files: the next task file
          trace          \* sanitizer and store invocations, outcome per task file

vars == <<pc, env, response_text, sanitized, saved_files, save_idx, task_files,
          files, calls, idx, trace>>

PROMPT_TASK == <<"Generate:">>

PROMPT_CODE == <<"Solve:", "{task_content}">>

\* str.format(task_content=...) on the template
RECURSIVE Format(_, _)
Format(template, task_content) ==
    IF Len(template) = 0 THEN <<>>
    ELSE (IF template[1] = "{task_content}" THEN task_content ELSE <<template[1]>>)
         \o Format(Tail(template), task_content)

NoSanitized == [raised |-> FALSE, cleaned |-> <<>>, how |-> "none", result |-> <<>>]

EnvSet == [url : BOOLEAN, template : BOOLEAN, model_task : BOOLEAN,
           model_solution : BOOLEAN]

Init ==
    /\ pc = "generate"
    /\ env \in EnvSet
    /\ response_text = PyNone
    /\ sanitized = NoSanitized
    /\ saved_files = <<>>
    /\ save_idx = 0
    /\ task_files = <<>>
    /\ files = {}
    /\ calls = <<>>
    /\ idx = 0
    /\ trace = <<>>

\* Variant of IsEmptyResponse: only an absent answer counts as empty.
IsAbsentResponse(r) == r.t = "none"

\* line 175: not response_text
IsEmptyResponse(r) == ~Truthy(r)

\* lines 172-176 and 183-185: the task model is asked; an empty or absent
\* answer raises ValueError, which makes generate_programming_tasks return []
CallTaskModel ==
    /\ pc = "generate"
    /\ \E o \in Outcomes(env.url, env.model_task, TaskResponses) :
         LET r == GenerateWithOllama(o)
         IN  /\ calls' = Append(calls, [model |-> "task", prompt |-> PROMPT_TASK,
                                        gave_text |-> Truthy(r)])
             /\ IF IsEmptyResponse(r)
                THEN /\ pc' = "main"
                     /\ response_text' = PyNone
                ELSE /\ pc' = "sanitize"
                     /\ response_text' = r
    /\ UNCHANGED <<env, sanitized, saved_files, save_idx, task_files, files, idx, trace>>

\* line 179 (and 183-185 if sanitize_json raises), then lines 119-123
Sanitize ==
    /\ pc = "sanitize"
    /\ LET r == SanitizeJson(response_text.s)
       IN  /\ sanitized' = r
           /\ pc' = IF r.raised THEN "main" ELSE "save"
           /\ response_text' = IF r.raised THEN PyNone ELSE response_text
           /\ save_idx' = IF r.raised THEN 0 ELSE 1
    /\ saved_files' = <<>>
    /\ trace' = Append(trace, "sanitize")
    /\ UNCHANGED <<env, task_files, files, calls, idx>>

\* one iteration of the loop of line 125
SaveStep ==
    /\ pc = "save"
    /\ save_idx <= Len(sanitized.result)
    /\ LET st == SaveOne([saved_files |-> saved_files, files |-> files],
                         sanitized.result[save_idx].k, sanitized.result[save_idx].v)
       IN  /\ saved_files' = st.saved_files
           /\ files' = st.files
    /\ save_idx' = save_idx + 1
    /\ trace' = IF save_idx = 1 THEN Append(trace, "save") ELSE trace
    /\ UNCHANGED <<pc, env, response_text, sanitized, task_files, calls, idx>>

\* lines 165 and 182: the paths are returned; the locals of
\* generate_programming_tasks and save_tasks_to_files end with the calls
SaveReturn ==
    /\ pc = "save"
    /\ save_idx > Len(sanitized.result)
    /\ task_files' = saved_files
    /\ pc' = "main"
    /\ response_text' = PyNone
    /\ sanitized' = NoSanitized
    /\ saved_files' = <<>>
    /\ save_idx' = 0
    /\ UNCHANGED <<env, files, calls, idx, trace>>

\* lines 241-244
MainCheck ==
    /\ pc = "main"
    /\ IF Len(task_files) > 0
       THEN pc' = "reports" /\ idx' = 1
       ELSE pc' = "done" /\ idx' = 0
    /\ UNCHANGED <<env, response_text, sanitized, saved_files, save_idx, task_files,
                   files, calls, trace>>

FileContent(fs, path) == (CHOOSE f \in fs : f.path = path).content

\* line 214
ReportPath(task_file) == Replace(task_file, "_task", "_output")

\* lines 219-225
CleanReport(report_content) ==
    LET stripped == Strip(report_content)
        opened   == IF StartsWith(stripped, <<"BT3", "markdown">>)
                    THEN Strip(SubSeq(stripped, 3, Len(stripped)))
                    ELSE stripped
    IN  IF EndsWith(opened, <<"BT3">>)
        THEN Strip(SubSeq(opened, 1, Len(opened) - 1))
        ELSE opened

\* One iteration of the loop of line 213 (generate_report_for_task within).
\* A missing template makes line 196 raise AttributeError outside any try:
\* the exception leaves process_task_files and ends the run.
ReportOne ==
    /\ pc = "reports"
    /\ idx <= Len(task_files)
    /\ LET task_file    == task_files[idx]
           task_content == FileContent(files, task_file)
       IN  IF ~env.template
           THEN /\ pc' = "crashed"
                /\ trace' = Append(trace, "crash")
                /\ UNCHANGED <<files, calls, idx>>
           ELSE \E o \in Outcomes(env.url, env.model_solution, ReportResponses) :
                  LET r == GenerateWithOllama(o)
                  IN  /\ calls' = Append(calls,
                                    [model |-> "solution",
                                     prompt |-> Format(PROMPT_CODE, task_content),
                                     gave_text |-> Truthy(r)])
                      /\ files' = IF Truthy(r)
                                  THEN WriteFile(files, ReportPath(task_file),
                                                 CleanReport(r.s))
                                  ELSE files
                      /\ trace' = Append(trace, IF Truthy(r) THEN "report" ELSE "failed")
                      /\ idx' = idx + 1
                      /\ pc' = pc
    /\ UNCHANGED <<env, response_text, sanitized, saved_files, save_idx, task_files>>

\* the loop of line 213 is exhausted
ReportsDone ==
    /\ pc = "reports"
    /\ idx > Len(task_files)
    /\ pc' = "done"
    /\ UNCHANGED <<env, response_text, sanitized, saved_files, save_idx, task_files,
                   files, calls, idx, trace>>

Next ==
    \/ CallTaskModel
    \/ Sanitize
    \/ SaveStep
    \/ SaveReturn
    \/ MainCheck
    \/ ReportOne
    \/ ReportsDone

Spec == Init /\ [][Next]_vars

\* ========================================================================
\* Properties
\* ========================================================================
\* sanitize_json has returned: response_text is its input, sanitized its result
AfterSanitize == pc = "save"

InputText == response_text.s

\* the input read as JSON
InputJson == JsonLoads(InputText)

IsObject(j) == j.ok /\ j.v.t = "dict"

AllKeysDigit(entries) == \A i \in 1..Len(entries) : IsDigit(entries[i].k)

NoKeyDigit(entries) == \A i \in 1..Len(entries) : ~IsDigit(entries[i].k)

\* C1 as stated: for every JSON object input whose keys are all digit
\* strings, the object without keys included, sanitize_json returns the
\* input mapping unchanged (same keys, same values, same order).
C1_AsStated ==
    AfterSanitize =>
        LET j == InputJson
        IN  (IsObject(j) /\ AllKeysDigit(j.v.items)) => sanitized.result = j.v.items

\* C1 amended: for every JSON object input with at least one key whose keys
\* are all digit strings, sanitize_json returns the input mapping unchanged
\* (same keys, same values, same order).
C1_DigitKeysUnchanged ==
    AfterSanitize =>
        LET j == InputJson
        IN  (IsObject(j) /\ AllKeysDigit(j.v.items) /\ Len(j.v.items) >= 1)
                => sanitized.result = j.v.items

C1_Witness ==
    /\ AfterSanitize
    /\ LET j == InputJson
       IN  /\ IsObject(j) /\ AllKeysDigit(j.v.items)
           /\ Len(j.v.items) >= 2
           /\ \E i \in 1..Len(j.v.items) : ~IntParses(j.v.items[i].k)
           /\ sanitized.result = j.v.items

\* the value C2 expects for an entry
C2_Expected(entry) ==
    PyStr(<<"#", " ">> \o entry.k \o <<"\n", "\n">> \o PyStrOf(entry.v))

C2_Rekeyed(entries) ==
    /\ Len(sanitized.result) = Len(entries)
    /\ \A i \in 1..Len(entries) :
         /\ sanitized.result[i].k = StrOfInt(i)
         /\ sanitized.result[i].v = C2_Expected(entries[i])

\* C2 as stated: for every JSON object input with no digit-string key and N
\* entries, the result has exactly the keys "1".."N" in insertion order and
\* the value at key i is "# " + i-th key + "\n\n" + i-th value.
C2_AsStated ==
    AfterSanitize =>
        LET j == InputJson
        IN  (IsObject(j) /\ NoKeyDigit(j.v.items)) => C2_Rekeyed(j.v.items)

\* C2 amended: for every JSON object input with no digit-string key and
\* N >= 1 entries, the result has exactly the keys "1".."N" in insertion
\* order and the value at key i is "# " + i-th key + "\n\n" + str(i-th value).
C2_NoDigitKeysRekeyed ==
    AfterSanitize =>
        LET j == InputJson
        IN  (IsObject(j) /\ NoKeyDigit(j.v.items) /\ Len(j.v.items) >= 1)
                => C2_Rekeyed(j.v.items)

C2_Witness ==
    /\ AfterSanitize
    /\ LET j == InputJson
       IN  /\ IsObject(j) /\ NoKeyDigit(j.v.items)
           /\ Len(j.v.items) >= 2
           /\ j.v.items[2].v.t = "list"
           /\ C2_Rekeyed(j.v.items)

\* json.loads refused the candidate
ParseFailed == ~JsonLoads(sanitized.cleaned).ok

\* the matches of "Task <number>:" in the input: secs[i] is the number of a
\* match and secs[i + 1] the text that follows it
Sections == ReSplit(InputText)

MatchIdx(secs) == {i \in 1..Len(secs) : i % 2 = 0}

\* the matches followed by something other than blanks
UsableIdx(secs) == {i \in MatchIdx(secs) : Len(Strip(secs[i + 1])) > 0}

HeadingOf(num) == <<"#", " ", "Task", " ">> \o num \o <<":">>

\* C3 as stated: when JSON parsing fails, the result has one entry per match
\* of "Task <number>:", keyed by the number, whose value starts with
\* "# Task <number>:", so k matches give exactly k entries.
C3_AsStated ==
    (AfterSanitize /\ ParseFailed) =>
        LET secs    == Sections
            matches == MatchIdx(secs)
        IN  matches # {}
              => /\ Len(sanitized.result) = Cardinality(matches)
                 /\ \A i \in matches :
                      \E j \in 1..Len(sanitized.result) :
                        /\ sanitized.result[j].k = secs[i]
                        /\ StartsWith(sanitized.result[j].v.s, HeadingOf(secs[i]))

\* the last match in `usable` with number num
LastUsable(secs, usable, num) ==
    CHOOSE i \in usable :
      /\ secs[i] = num
      /\ \A j \in usable : secs[j] = num => j <= i

\* C3 amended: when JSON parsing fails and some match of "Task <number>:" is
\* followed by non-blank content, the result has one entry per distinct
\* number among those matches (matches followed only by blanks give none):
\* the entry is keyed by the number and its value is "# Task <number>:"
\* followed by the trimmed content after the last such match of that number.
C3_FallbackPerNumber ==
    (AfterSanitize /\ ParseFailed) =>
        LET secs   == Sections
            usable == UsableIdx(secs)
            nums   == {secs[i] : i \in usable}
        IN  usable # {}
              => /\ {sanitized.result[j].k : j \in 1..Len(sanitized.result)} = nums
                 /\ Len(sanitized.result) = Cardinality(nums)
                 /\ \A j \in 1..Len(sanitized.result) :
                      LET num == sanitized.result[j].k
                      IN  sanitized.result[j].v
                            = PyStr(HeadingOf(num)
                                    \o Strip(secs[LastUsable(secs, usable, num) + 1]))

C3_Witness ==
    /\ AfterSanitize /\ ParseFailed
    /\ LET secs == Sections
       IN  /\ Cardinality(MatchIdx(secs)) >= 2
           /\ Cardinality(MatchIdx(secs)) > Cardinality(UsableIdx(secs))
           /\ UsableIdx(secs) # {}
           /\ Len(sanitized.result) = Cardinality(UsableIdx(secs))

C5_Expected(v) ==
    IF v.t \in {"dict", "list"} THEN JsonDumps(v)
    ELSE IF v.t = "str" THEN Strip(v.s)
    ELSE PyStrOf(v)

\* C5: whatever path stored an entry, the file just written holds indented
\* JSON for a mapping or a sequence, the trimmed text for a text, and the
\* string form for anything else.
C5_ContentByType ==
    (pc = "save" /\ save_idx > 1 /\ Len(saved_files) > 0)
        => FileContent(files, saved_files[Len(saved_files)])
             = C5_Expected(sanitized.result[save_idx - 1].v)

\* C9: within one run of save_tasks_to_files no path is written twice.
C9_UniquePaths ==
    \A i, j \in 1..Len(saved_files) : i # j => saved_files[i] # saved_files[j]

\* what happened to each task file, in order
IsFileOutcome(x) == x \in {"report", "failed", "crash"}

FileOutcomes == SelectSeq(trace, IsFileOutcome)

Finished == pc \in {"done", "crashed"}

\* C6: once the run is over, every task file has been handled, whatever
\* happened to the files before it, and a report exists for a file whose
\* model response was non-empty.
C6_BatchNeverAborts ==
    (Finished /\ Len(task_files) > 0) =>
        LET outcomes == FileOutcomes
        IN  /\ Len(outcomes) = Len(task_files)
            /\ \A i \in 1..Len(outcomes) :
                 outcomes[i] = "report"
                   => \E f \in files : f.path = ReportPath(task_files[i])

\* the setting a call needs is missing
CallMisconfigured(c) ==
    \/ ~env.url
    \/ c.model = "task" /\ ~env.model_task
    \/ c.model = "solution" /\ ~env.model_solution

\* C7: a missing endpoint URL, solution-prompt template or model identifier
\* never raises out of the call: the call gives an empty or absent result
\* and the run goes on.
C7_ConfigErrorsContained ==
    /\ pc # "crashed"
    /\ \A i \in 1..Len(calls) : CallMisconfigured(calls[i]) => ~calls[i].gave_text

\* C8: if the task model gives an empty or absent answer, the sanitizer and
\* the store are never invoked, no file is written, the returned list is
\* empty and no solution-model call is made; and the one task-model call
\* comes before every solution-model call.
C8_FailFast ==
    /\ (Len(calls) >= 1 /\ ~calls[1].gave_text)
         => /\ \A i \in 1..Len(trace) : trace[i] \notin {"sanitize", "save"}
            /\ files = {}
            /\ task_files = <<>>
            /\ Len(calls) = 1
            /\ pc \in {"main", "done"}
    /\ \A i \in 1..Len(calls) : (calls[i].model = "task") <=> (i = 1)

C8_Witness ==
    /\ pc = "done"
    /\ env.url /\ env.model_task
    /\ Len(calls) = 1 /\ ~calls[1].gave_text
    /\ trace = <<>>

\* a fenced json block somewhere in the text, from the first opener to the
\* first closer after it: its inner text, trimmed ([found, inner])
FencedBlock(text) ==
    LET i == Find(text, FenceOpener, 1)
        j == IF i = 0 THEN 0 ELSE Find(text, FenceCloser, i + 2)
    IN  [found |-> j > 0,
         inner |-> IF j > 0 THEN Strip(SubSeq(text, i + 2, j - 1)) ELSE <<>>]

\* C10 as stated: whenever the text holds a fenced json block, also with
\* other text before or after it, the candidate is the block's inner text;
\* otherwise it is the whole trimmed text.
C10_AsStated ==
    AfterSanitize =>
        LET b == FencedBlock(InputText)
        IN  sanitized.cleaned = IF b.found THEN b.inner ELSE Strip(InputText)

\* the fence is the first and the last line of the text
FenceIsOuterLines(lines) ==
    /\ Strip(lines[1]) = FenceOpener
    /\ Strip(lines[Len(lines)]) = FenceCloser

\* C10 amended: sanitize_json strips a json fence only when the fence is the
\* first and the last line of the text: then the candidate is the text
\* between those two lines, trimmed; in every other case, also when a fenced
\* block has other text before or after it, the candidate is the whole
\* trimmed text.
C10_FenceOnOuterLinesOnly ==
    AfterSanitize =>
        LET lines == SplitLines(InputText)
        IN  sanitized.cleaned
              = IF FenceIsOuterLines(lines)
                THEN Strip(JoinLines(SubSeq(lines, 2, Len(lines) - 1)))
                ELSE Strip(InputText)

C10_Witness ==
    /\ AfterSanitize
    /\ LET b == FencedBlock(InputText)
       IN  /\ b.found /\ ~FenceIsOuterLines(SplitLines(InputText))
           /\ sanitized.cleaned = Strip(InputText)
           /\ sanitized.cleaned # b.inner
           /\ JsonLoads(b.inner).ok /\ ParseFailed

====
